---- MODULE Spec2Model ----
(***************************************************************************)
(* A model of the radix tree of go.oneofone.dev/radix: the rune-labelled   *)
(* Tree of radix_go117.go (Set, Delete, DeletePrefix, the lookup and walk  *)
(* family) with its string helpers.                                        *)
(*                                                                         *)
(* A Go string is a sequence of bytes (integers 0..255).  A node is a      *)
(* record [leaf, prefix, edges]: leaf is <<>> (nil) or a one-element       *)
(* sequence holding [key, val]; edges is the sorted slice of               *)
(* [label, node].  A *node is the position of a node in the tree, so an    *)
(* operation that mutates a node through a pointer rebuilds the path from  *)
(* the root to it.                                                         *)
(***************************************************************************)
EXTENDS Integers, Sequences, FiniteSets, TLC

VARIABLES root, size, fold, ref, last, spelt, other, mu, threads

vars == <<root, size, fold, ref, last, spelt, other, mu, threads>>

-----------------------------------------------------------------------------
(* Bounds and input sets *)

\* longest key, in bytes and in runes
MaxLen == 3
MaxRunes == 2
\* largest Len() the model lets Set reach
MaxSize == 3

Values == {1, 2}
\* t.zero, the nil interface{}
Zero == 0

\* runes the keys are written with: 'a', U+00E9, U+00EA (UTF-8 encoded)
Runes == {<<97>>, <<195, 169>>, <<195, 170>>}

\* the strings of at most n runes
RECURSIVE StringsUpTo(_)
StringsUpTo(n) ==
    IF n = 0 THEN {<<>>}
    ELSE {<<>>} \cup {r \o s : r \in Runes, s \in StringsUpTo(n - 1)}

\* every valid UTF-8 string of at most MaxRunes runes and MaxLen bytes
Keys == {s \in StringsUpTo(MaxRunes) : Len(s) <= MaxLen}

-----------------------------------------------------------------------------
(* unicode/utf8 and the helpers *)

RuneSelf == 128
RuneError == 65533

Drop(s, n) == SubSeq(s, n + 1, Len(s))
Take(s, n) == SubSeq(s, 1, n)

Front(s) == SubSeq(s, 1, Len(s) - 1)

IsCont(b) == b >= 128 /\ b <= 191

\* utf8.DecodeRuneInString on a non-empty string: [r, sz]
DecodeRuneInString(s) ==
    LET b0 == s[1]
        bad == [r |-> RuneError, sz |-> 1]
    IN  IF b0 < RuneSelf THEN [r |-> b0, sz |-> 1]
        ELSE IF b0 >= 194 /\ b0 <= 223
        THEN IF Len(s) >= 2 /\ IsCont(s[2])
             THEN [r |-> (b0 % 32) * 64 + (s[2] % 64), sz |-> 2]
             ELSE bad
        ELSE IF b0 >= 224 /\ b0 <= 239
        THEN IF /\ Len(s) >= 3
                /\ IsCont(s[2]) /\ IsCont(s[3])
                /\ (b0 = 224 => s[2] >= 160)
                /\ (b0 = 237 => s[2] <= 159)
             THEN [r |-> (b0 % 16) * 4096 + (s[2] % 64) * 64 + (s[3] % 64), sz |-> 3]
             ELSE bad
        ELSE IF b0 >= 240 /\ b0 <= 244
        THEN IF /\ Len(s) >= 4
                /\ IsCont(s[2]) /\ IsCont(s[3]) /\ IsCont(s[4])
                /\ (b0 = 240 => s[2] >= 144)
                /\ (b0 = 244 => s[2] <= 143)
             THEN [r |-> (b0 % 8) * 262144 + (s[2] % 64) * 4096
                         + (s[3] % 64) * 64 + (s[4] % 64), sz |-> 4]
             ELSE bad
        ELSE bad

\* nextRune indexes s[0]: it panics on the empty string
nextRunePanics(s) == s = <<>>

nextRune(s) ==
    IF s[1] < RuneSelf THEN s[1] ELSE DecodeRuneInString(s).r

asciiLower(r) == IF 65 <= r /\ r <= 90 THEN r + 32 ELSE r

asciiEq(sr, tr) == sr = tr \/ asciiLower(sr) = asciiLower(tr)

\* unicode.ToLower on the runes the model's strings can decode to:
\* ASCII letters, the Latin-1 letters U+00C0..U+00DE (except U+00D7), and
\* U+212A KELVIN SIGN, whose lower case is 'k'
toLower(r) ==
    IF 65 <= r /\ r <= 90 THEN r + 32
    ELSE IF 192 <= r /\ r <= 222 /\ r # 215 THEN r + 32
    ELSE IF r = 8490 THEN 107
    ELSE r

runeEq(sr, tr) == sr = tr \/ toLower(sr) = toLower(tr)

Min2(a, b) == IF a < b THEN a ELSE b

\* LongestPrefix: the number of leading bytes k1 and k2 share
LongestPrefix(k1, k2) ==
    LET max == Min2(Len(k1), Len(k2))
        diff == {i \in 1..max : k1[i] # k2[i]}
    IN  IF diff = {} THEN max
        ELSE (CHOOSE i \in diff : \A j \in diff : i <= j) - 1

\* strings.HasPrefix
HasPrefix(s, pre) == Len(s) >= Len(pre) /\ Take(s, Len(pre)) = pre

\* the loop of LongestPrefixFold from byte offset i (0-based), k1 the shorter
RECURSIVE LongestPrefixFoldFrom(_, _, _)
LongestPrefixFoldFrom(k1, k2, i) ==
    IF i >= Len(k1) THEN i
    ELSE IF k1[i + 1] < RuneSelf
    THEN IF ~asciiEq(k1[i + 1], k2[i + 1]) THEN i
         ELSE LongestPrefixFoldFrom(k1, k2, i + 1)
    ELSE LET d1 == DecodeRuneInString(Drop(k1, i))
             d2 == DecodeRuneInString(Drop(k2, i))
         IN  IF ~runeEq(d1.r, d2.r) THEN i
             ELSE LongestPrefixFoldFrom(k1, k2, i + d1.sz)

LongestPrefixFold(k1, k2) ==
    IF Len(k1) > Len(k2) THEN LongestPrefixFoldFrom(k2, k1, 0)
    ELSE LongestPrefixFoldFrom(k1, k2, 0)

\* the loop of HasPrefixFold from byte offset i (0-based)
RECURSIVE HasPrefixFoldFrom(_, _, _)
HasPrefixFoldFrom(s, pre, i) ==
    IF i >= Len(pre) THEN TRUE
    ELSE IF pre[i + 1] < RuneSelf
    THEN IF ~asciiEq(pre[i + 1], s[i + 1]) THEN FALSE
         ELSE HasPrefixFoldFrom(s, pre, i + 1)
    ELSE LET dp == DecodeRuneInString(Drop(pre, i))
             ds == DecodeRuneInString(Drop(s, i))
         IN  IF ~runeEq(dp.r, ds.r) THEN FALSE
             ELSE HasPrefixFoldFrom(s, pre, i + dp.sz)

HasPrefixFold(s, pre) ==
    IF Len(s) < Len(pre) THEN FALSE ELSE HasPrefixFoldFrom(s, pre, 0)

\* hasPrefixFn with its arguments taken in the wrong order
hasPrefixFnSwapped(f, s, pre) ==
    IF ~f THEN HasPrefix(pre, s) ELSE HasPrefixFold(pre, s)

hasPrefixFn(f, s, pre) == IF ~f THEN HasPrefix(s, pre) ELSE HasPrefixFold(s, pre)

longestPrefixFn(f, a, b) ==
    IF ~f THEN LongestPrefix(a, b) ELSE LongestPrefixFold(a, b)

-----------------------------------------------------------------------------
(* node and edge primitives *)

NoLeaf == <<>>

Leaf(key, val) == <<[key |-> key, val |-> val]>>

Node(leaf, prefix, edges) == [leaf |-> leaf, prefix |-> prefix, edges |-> edges]

EmptyNode == Node(NoLeaf, <<>>, <<>>)

isLeafInTheWind(n) == n.leaf # NoLeaf

\* sort.Search(num, func(i) { return edges[i].label >= label }), 1-based:
\* the first position whose label is >= label, Len(es) + 1 when there is none
SearchEdges(es, label) ==
    LET hits == {i \in 1..Len(es) : es[i].label >= label}
    IN  IF hits = {} THEN Len(es) + 1
        ELSE CHOOSE i \in hits : \A j \in hits : i <= j

foldLabel(label, f) == IF f THEN toLower(label) ELSE label

addEdge(n, e, f) ==
    LET lab == foldLabel(e.label, f)
        idx == SearchEdges(n.edges, lab)
    IN  [n EXCEPT !.edges = Take(@, idx - 1) \o <<[label |-> lab, node |-> e.node]>>
                            \o Drop(@, idx - 1)]

\* getEdge: the position of the edge it returns the node of, 0 for nil
getEdge(n, label, f) ==
    LET lab == foldLabel(label, f)
        idx == SearchEdges(n.edges, lab)
    IN  IF idx <= Len(n.edges) /\ n.edges[idx].label = lab THEN idx ELSE 0

\* updateEdge looking for the label as it was given, never lower-cased
updateEdgePanicsUnfolded(n, label, f) == getEdge(n, label, FALSE) = 0

\* updateEdge panics ("replacing missing edge") when it finds no such label
updateEdgePanics(n, label, f) == getEdge(n, label, f) = 0

updateEdge(n, label, node, f) ==
    [n EXCEPT !.edges[getEdge(n, label, f)].node = node]

delEdge(n, label, f) ==
    LET idx == getEdge(n, label, f)
    IN  IF idx # 0
        THEN [n EXCEPT !.edges = Take(@, idx - 1) \o Drop(@, idx)]
        ELSE n

\* mergeChild taking the child's prefix for the sum of the two
mergeChildDropPrefix(n) ==
    LET child == n.edges[1].node
    IN  Node(child.leaf, child.prefix, child.edges)

mergeChild(n) ==
    LET child == n.edges[1].node
    IN  Node(child.leaf, n.prefix \o child.prefix, child.edges)

-----------------------------------------------------------------------------
(* Tree.Set *)

\* what one call of Set leaves behind: the node the loop was at (rebuilt),
\* the two results, the change of t.size, and whether the call panicked
SetOut(node, old, updated, grew, panic) ==
    [node |-> node, old |-> old, updated |-> updated, grew |-> grew, panic |-> panic]

\* the split of child n (at position i of parent) after commonPrefix bytes
SetSplit(parent, i, r, search, commonPrefix, key, value, f) ==
    LET n == parent.edges[i].node
        rest == Drop(search, commonPrefix)
        restored == addEdge(Node(NoLeaf, Take(search, commonPrefix), <<>>),
                            [label |-> nextRune(Drop(n.prefix, commonPrefix)),
                             node |-> [n EXCEPT !.prefix = Drop(@, commonPrefix)]],
                            f)
        child == IF rest = <<>>
                 THEN [restored EXCEPT !.leaf = Leaf(key, value)]
                 ELSE addEdge(restored,
                              [label |-> nextRune(rest),
                               node |-> Node(Leaf(key, value), rest, <<>>)],
                              f)
    IN  IF updateEdgePanics(parent, r, f)
        THEN SetOut(parent, Zero, FALSE, 1, TRUE)
        ELSE SetOut(updateEdge(parent, r, child, f), Zero, FALSE, 1, FALSE)

\* one iteration of the loop of Set at node n with `search` left of key
RECURSIVE SetLoop(_, _, _, _, _)
SetLoop(n, search, key, value, f) ==
    IF search = <<>>
    THEN IF isLeafInTheWind(n)
         THEN SetOut([n EXCEPT !.leaf[1].val = value], n.leaf[1].val, TRUE, 0, FALSE)
         ELSE SetOut([n EXCEPT !.leaf = Leaf(key, value)], Zero, FALSE, 1, FALSE)
    ELSE
        LET r == nextRune(search)
            i == getEdge(n, r, f)
        IN  IF i = 0
            THEN SetOut(addEdge(n, [label |-> r,
                                    node |-> Node(Leaf(key, value), search, <<>>)], f),
                        Zero, FALSE, 1, FALSE)
            ELSE
                LET c == n.edges[i].node
                    commonPrefix == longestPrefixFn(f, search, c.prefix)
                IN  IF commonPrefix = Len(c.prefix)
                    THEN LET sub == SetLoop(c, Drop(search, commonPrefix), key, value, f)
                         IN  [sub EXCEPT !.node = [n EXCEPT !.edges[i].node = sub.node]]
                    ELSE SetSplit(n, i, r, search, commonPrefix, key, value, f)

TreeSet(t, key, value, f) == SetLoop(t, key, key, value, f)

-----------------------------------------------------------------------------
(* Tree.Get, Tree.LongestPrefix, Tree.Minimum, Tree.Maximum *)

GetOut(val, ok) == [val |-> val, ok |-> ok]

RECURSIVE TreeGet(_, _, _)
TreeGet(n, search, f) ==
    IF search = <<>>
    THEN IF isLeafInTheWind(n) THEN GetOut(n.leaf[1].val, TRUE)
         ELSE GetOut(Zero, FALSE)
    ELSE
        LET i == getEdge(n, nextRune(search), f)
        IN  IF i = 0 THEN GetOut(Zero, FALSE)
            ELSE IF hasPrefixFn(f, search, n.edges[i].node.prefix)
            THEN TreeGet(n.edges[i].node, Drop(search, Len(n.edges[i].node.prefix)), f)
            ELSE GetOut(Zero, FALSE)

KeyOut(key, val, ok) == [key |-> key, val |-> val, ok |-> ok]

LeafOut(l) == IF l = NoLeaf THEN KeyOut(<<>>, Zero, FALSE)
              ELSE KeyOut(l[1].key, l[1].val, TRUE)

\* the loop of LongestPrefix at node n, `last0` the leaf remembered before n
RECURSIVE LongestPrefixLoop(_, _, _, _)
LongestPrefixLoop(n, search, last0, f) ==
    LET last1 == IF isLeafInTheWind(n) THEN n.leaf ELSE last0
    IN  IF search = <<>> THEN LeafOut(last1)
        ELSE
            LET i == getEdge(n, nextRune(search), f)
            IN  IF i = 0 THEN LeafOut(last1)
                ELSE IF hasPrefixFn(f, search, n.edges[i].node.prefix)
                THEN LongestPrefixLoop(n.edges[i].node,
                                       Drop(search, Len(n.edges[i].node.prefix)),
                                       last1, f)
                ELSE LeafOut(last1)

TreeLongestPrefix(t, s, f) == LongestPrefixLoop(t, s, NoLeaf, f)

RECURSIVE TreeMinimum(_)
TreeMinimum(n) ==
    IF isLeafInTheWind(n) THEN LeafOut(n.leaf)
    ELSE IF Len(n.edges) > 0 THEN TreeMinimum(n.edges[1].node)
    ELSE LeafOut(NoLeaf)

RECURSIVE TreeMaximum(_)
TreeMaximum(n) ==
    IF Len(n.edges) > 0 THEN TreeMaximum(n.edges[Len(n.edges)].node)
    ELSE LeafOut(n.leaf)

-----------------------------------------------------------------------------
(* recursiveWalk *)

\* The callback fn is modelled by the set `stop` of keys at which it returns
\* true.  The result is the sequence of leaves fn was called with, in call
\* order, and what recursiveWalk returns.
WalkOut(seq, stopped) == [seq |-> seq, stopped |-> stopped]

RECURSIVE recursiveWalk(_, _), walkEdges(_, _, _, _)
recursiveWalk(n, stop) ==
    IF isLeafInTheWind(n) /\ n.leaf[1].key \in stop
    THEN WalkOut(n.leaf, TRUE)
    ELSE walkEdges(n.edges, 1, n.leaf, stop)

\* the range loop going on to the next edge whatever recursiveWalk returned
RECURSIVE walkEdgesNoStop(_, _, _, _)
walkEdgesNoStop(es, i, seen, stop) ==
    IF i > Len(es) THEN WalkOut(seen, FALSE)
    ELSE walkEdgesNoStop(es, i + 1, seen \o recursiveWalk(es[i].node, stop).seq, stop)

\* the range loop over n.edges from position i on, `seen` visited so far
walkEdges(es, i, seen, stop) ==
    IF i > Len(es) THEN WalkOut(seen, FALSE)
    ELSE LET w == recursiveWalk(es[i].node, stop)
         IN  IF w.stopped THEN WalkOut(seen \o w.seq, TRUE)
             ELSE walkEdges(es, i + 1, seen \o w.seq, stop)

TreeWalk(t, stop) == recursiveWalk(t, stop)

RECURSIVE TreeWalkPrefix(_, _, _, _)
TreeWalkPrefix(n, search, stop, f) ==
    IF search = <<>> THEN recursiveWalk(n, stop)
    ELSE
        LET i == getEdge(n, nextRune(search), f)
        IN  IF i = 0 THEN WalkOut(<<>>, FALSE)
            ELSE IF hasPrefixFn(f, search, n.edges[i].node.prefix)
            THEN TreeWalkPrefix(n.edges[i].node,
                                Drop(search, Len(n.edges[i].node.prefix)), stop, f)
            ELSE IF hasPrefixFn(f, n.edges[i].node.prefix, search)
            THEN recursiveWalk(n.edges[i].node, stop)
            ELSE WalkOut(<<>>, FALSE)

\* the loop of WalkPath at node n, `seen` the leaves visited before n
RECURSIVE WalkPathLoop(_, _, _, _, _)
WalkPathLoop(n, search, seen, stop, f) ==
    IF isLeafInTheWind(n) /\ n.leaf[1].key \in stop
    THEN WalkOut(seen \o n.leaf, TRUE)
    ELSE
        LET seen1 == seen \o n.leaf
            i == IF search = <<>> THEN 0 ELSE getEdge(n, nextRune(search), f)
        IN  IF search = <<>> \/ i = 0 THEN WalkOut(seen1, FALSE)
            ELSE IF hasPrefixFn(f, search, n.edges[i].node.prefix)
            THEN WalkPathLoop(n.edges[i].node,
                              Drop(search, Len(n.edges[i].node.prefix)),
                              seen1, stop, f)
            ELSE WalkOut(seen1, FALSE)

TreeWalkPath(t, path, stop, f) == WalkPathLoop(t, path, <<>>, stop, f)

\* the loop of WalkNearestPath keeping `last` only where the node has a leaf
RECURSIVE WalkNearestPathLoopLeafOnly(_, _, _, _)
WalkNearestPathLoopLeafOnly(n, search, last0, f) ==
    LET last1 == IF isLeafInTheWind(n) THEN <<n>> ELSE last0
        i == IF search = <<>> THEN 0 ELSE getEdge(n, nextRune(search), f)
    IN  IF search = <<>> \/ i = 0 THEN last1
        ELSE IF hasPrefixFn(f, search, n.edges[i].node.prefix)
        THEN WalkNearestPathLoopLeafOnly(n.edges[i].node,
                                         Drop(search, Len(n.edges[i].node.prefix)),
                                         last1, f)
        ELSE last1

\* the loop of WalkNearestPath at node n: the node `last` points to when the
\* loop ends, <<>> for nil; `last0` is what it pointed to before n
RECURSIVE WalkNearestPathLoop(_, _, _, _)
WalkNearestPathLoop(n, search, last0, f) ==
    LET last1 == IF isLeafInTheWind(n) THEN <<n>> ELSE last0
        i == IF search = <<>> THEN 0 ELSE getEdge(n, nextRune(search), f)
    IN  IF search = <<>> \/ i = 0 THEN last1
        ELSE IF hasPrefixFn(f, search, n.edges[i].node.prefix)
        THEN WalkNearestPathLoop(n.edges[i].node,
                                 Drop(search, Len(n.edges[i].node.prefix)),
                                 <<n.edges[i].node>>, f)
        ELSE <<n.edges[i].node>>

TreeWalkNearestPath(t, path, stop, f) ==
    LET lastNode == WalkNearestPathLoop(t, path, <<>>, f)
    IN  IF lastNode # <<>> THEN recursiveWalk(lastNode[1], stop)
        ELSE WalkOut(<<>>, FALSE)

-----------------------------------------------------------------------------
(* Tree.Delete *)

DeleteOut(node, val, ok) == [node |-> node, val |-> val, ok |-> ok]

\* the code after the DELETE label without its last step, the merge of the
\* parent with its other child
DeleteNodeNoParentMerge(parent, i, label, parentIsRoot, f) ==
    LET n == parent.edges[i].node
        n1 == [n EXCEPT !.leaf = NoLeaf]
        p1 == [parent EXCEPT !.edges[i].node = n1]
        p2 == IF Len(n1.edges) = 0 THEN delEdge(p1, label, f) ELSE p1
        p3 == IF Len(n1.edges) = 1
              THEN [p2 EXCEPT !.edges[i].node = mergeChild(n1)]
              ELSE p2
    IN  DeleteOut(p3, n.leaf[1].val, TRUE)

\* the code after the DELETE label, n being the child at position i of parent
DeleteNode(parent, i, label, parentIsRoot, f) ==
    LET n == parent.edges[i].node
        n1 == [n EXCEPT !.leaf = NoLeaf]
        p1 == [parent EXCEPT !.edges[i].node = n1]
        p2 == IF Len(n1.edges) = 0 THEN delEdge(p1, label, f) ELSE p1
        p3 == IF Len(n1.edges) = 1
              THEN [p2 EXCEPT !.edges[i].node = mergeChild(n1)]
              ELSE p2
        p4 == IF ~parentIsRoot /\ Len(p3.edges) = 1 /\ ~isLeafInTheWind(p3)
              THEN mergeChild(p3)
              ELSE p3
    IN  DeleteOut(p4, n.leaf[1].val, TRUE)

\* one iteration of the loop of Delete at node n with a non-empty `search`
RECURSIVE DeleteLoop(_, _, _, _)
DeleteLoop(n, search, isRoot, f) ==
    LET label == nextRune(search)
        i == getEdge(n, label, f)
    IN  IF i = 0 THEN DeleteOut(n, Zero, FALSE)
        ELSE
            LET c == n.edges[i].node
                rest == Drop(search, Len(c.prefix))
            IN  IF ~hasPrefixFn(f, search, c.prefix) THEN DeleteOut(n, Zero, FALSE)
                ELSE IF rest = <<>>
                THEN IF ~isLeafInTheWind(c) THEN DeleteOut(n, Zero, FALSE)
                     ELSE DeleteNode(n, i, label, isRoot, f)
                ELSE LET sub == DeleteLoop(c, rest, FALSE, f)
                     IN  [sub EXCEPT !.node = [n EXCEPT !.edges[i].node = sub.node]]

TreeDelete(t, s, f) ==
    IF s = <<>>
    THEN IF ~isLeafInTheWind(t) THEN DeleteOut(t, Zero, FALSE)
         ELSE DeleteOut([t EXCEPT !.leaf = NoLeaf], t.leaf[1].val, TRUE)
    ELSE DeleteLoop(t, s, TRUE, f)

-----------------------------------------------------------------------------
(* Tree.DeletePrefix *)

DeletePrefixOut(node, n, panic) == [node |-> node, n |-> n, panic |-> panic]

\* deletePrefix(parent, n, "") for the child n at position i of parent
deletePrefixNode(parent, i, parentIsRoot, f) ==
    LET n == parent.edges[i].node
        subTreeSize == Len(recursiveWalk(n, {}).seq)
        p1 == [parent EXCEPT !.edges[i].node = Node(NoLeaf, n.prefix, <<>>)]
        p2 == delEdge(p1, nextRune(n.prefix), f)
        p3 == IF ~parentIsRoot /\ Len(p2.edges) = 1 /\ ~isLeafInTheWind(p2)
              THEN mergeChild(p2)
              ELSE p2
    IN  IF nextRunePanics(n.prefix) THEN DeletePrefixOut(p1, 0, TRUE)
        ELSE DeletePrefixOut(p3, subTreeSize, FALSE)

\* deletePrefix(parent, n, prefix) for a non-empty prefix
RECURSIVE deletePrefix(_, _, _, _)
deletePrefix(n, prefix, isRoot, f) ==
    LET label == nextRune(prefix)
        i == getEdge(n, label, f)
    IN  IF i = 0 THEN DeletePrefixOut(n, 0, FALSE)
        ELSE
            LET child == n.edges[i].node
                rest == IF Len(child.prefix) > Len(prefix) THEN <<>>
                        ELSE Drop(prefix, Len(child.prefix))
            IN  IF /\ ~hasPrefixFn(f, child.prefix, prefix)
                   /\ ~hasPrefixFn(f, prefix, child.prefix)
                THEN DeletePrefixOut(n, 0, FALSE)
                ELSE IF rest = <<>> THEN deletePrefixNode(n, i, isRoot, f)
                ELSE LET sub == deletePrefix(child, rest, FALSE, f)
                     IN  [sub EXCEPT !.node = [n EXCEPT !.edges[i].node = sub.node]]

TreeDeletePrefix(t, s, f) ==
    IF s = <<>>
    THEN DeletePrefixOut(Node(NoLeaf, t.prefix, <<>>),
                         Len(recursiveWalk(t, {}).seq), FALSE)
    ELSE deletePrefix(t, s, TRUE, f)

-----------------------------------------------------------------------------
(* Tree.MergeMap, Tree.Merge, Tree.ToMap *)

\* a tree value: its root, its size, and whether a call on it panicked
TreeOf(r, sz, panic) == [root |-> r, size |-> sz, panic |-> panic]

\* t.Set(seq[i].key, seq[i].val) for i, i + 1, ... in turn
RECURSIVE SetAll(_, _, _, _)
SetAll(t, seq, i, f) ==
    IF i > Len(seq) \/ t.panic THEN t
    ELSE LET out == TreeSet(t.root, seq[i].key, seq[i].val, f)
         IN  SetAll(TreeOf(out.node, t.size + out.grew, out.panic), seq, i + 1, f)

\* Merge: ot.Walk with a callback that calls t.Set and never stops
TreeMerge(t, ot, f) == SetAll(t, TreeWalk(ot.root, {}).seq, 1, f)

\* MergeMap: range over m in the order `order` the runtime picks
TreeMergeMap(t, m, order, f) ==
    SetAll(t, [i \in 1..Len(order) |-> [key |-> order[i], val |-> m[order[i]]]], 1, f)

\* ToMap: out[k] = v for every leaf Walk visits, a later one overwriting
MapOf(seq) ==
    LET at(k) == CHOOSE i \in 1..Len(seq) :
                     /\ seq[i].key = k
                     /\ \A j \in 1..Len(seq) : seq[j].key = k => j <= i
    IN  [k \in {seq[i].key : i \in 1..Len(seq)} |-> seq[at(k)].val]

TreeToMap(t) == MapOf(TreeWalk(t, {}).seq)

-----------------------------------------------------------------------------
(* Nodes by position *)

\* the positions of the nodes under n: the edge indices on the way down from n
RECURSIVE Positions(_)
Positions(n) ==
    {<<>>} \cup UNION {{<<i>> \o p : p \in Positions(n.edges[i].node)} :
                       i \in 1..Len(n.edges)}

RECURSIVE NodeAt(_, _)
NodeAt(n, pos) ==
    IF pos = <<>> THEN n ELSE NodeAt(n.edges[pos[1]].node, Tail(pos))

\* the prefixes of the nodes from n down to the node at pos, concatenated
RECURSIVE PathPrefix(_, _)
PathPrefix(n, pos) ==
    IF pos = <<>> THEN n.prefix
    ELSE n.prefix \o PathPrefix(n.edges[pos[1]].node, Tail(pos))

-----------------------------------------------------------------------------
(* The reference map the tree is compared with *)

RefGet(m, k) == IF k \in DOMAIN m THEN GetOut(m[k], TRUE) ELSE GetOut(Zero, FALSE)

RefSet(m, k, v) == [x \in DOMAIN m \cup {k} |-> IF x = k THEN v ELSE m[x]]

RefDel(m, ks) == [x \in DOMAIN m \ ks |-> m[x]]

\* the UTF-8 encoding of a rune below U+0800
EncodeRune(r) == IF r < RuneSelf THEN <<r>> ELSE <<192 + (r \div 64), 128 + (r % 64)>>

\* s with every rune replaced by its lower-case form
RECURSIVE FoldKey(_)
FoldKey(s) ==
    IF s = <<>> THEN <<>>
    ELSE EncodeRune(toLower(DecodeRuneInString(s).r))
             \o FoldKey(Drop(s, DecodeRuneInString(s).sz))

\* the key the reference map files k under: k itself, or k up to case
RefKey(k, f) == IF f THEN FoldKey(k) ELSE k

\* the spelling a key was first stored with, kept until the key is removed
Spell(sp, k, f) ==
    IF RefKey(k, f) \in DOMAIN sp THEN sp
    ELSE [x \in DOMAIN sp \cup {RefKey(k, f)} |-> IF x = RefKey(k, f) THEN k ELSE sp[x]]

-----------------------------------------------------------------------------
(* The state machine *)

\* the last call: its name, arguments and results, and whether it panicked
Last(op, key, val, old, ok, n, panic) ==
    [op |-> op, key |-> key, val |-> val, old |-> old, ok |-> ok, n |-> n,
     panic |-> panic]

Init ==
    /\ root = EmptyNode
    /\ size = 0
    /\ fold = FALSE
    /\ ref = <<>>
    /\ last = Last("New", <<>>, Zero, Zero, FALSE, 0, FALSE)
    /\ spelt = <<>>
    /\ other = [root |-> EmptyNode, size |-> 0]
    /\ mu = <<>>
    /\ threads = <<>>

\* a panic ends the program: nothing runs after it
Running == ~last.panic

Set(k, v) ==
    /\ Running
    /\ LET out == TreeSet(root, k, v, fold)
       IN  /\ size + out.grew <= MaxSize
           /\ root' = out.node
           /\ size' = size + out.grew
           /\ ref' = RefSet(ref, RefKey(k, fold), v)
           /\ spelt' = Spell(spelt, k, fold)
           /\ last' = Last("Set", k, v, out.old, out.updated, 0, out.panic)
    /\ UNCHANGED <<fold, other, mu, threads>>

Delete(k) ==
    /\ Running
    /\ LET out == TreeDelete(root, k, fold)
       IN  /\ root' = out.node
           /\ size' = IF out.ok THEN size - 1 ELSE size
           /\ ref' = RefDel(ref, {RefKey(k, fold)})
           /\ spelt' = RefDel(spelt, {RefKey(k, fold)})
           /\ last' = Last("Delete", k, Zero, out.val, out.ok, 0, FALSE)
    /\ UNCHANGED <<fold, other, mu, threads>>

DeletePrefix(p) ==
    /\ Running
    /\ LET out == TreeDeletePrefix(root, p, fold)
       IN  /\ root' = out.node
           /\ size' = size - out.n
           /\ ref' = RefDel(ref, {k \in DOMAIN ref : HasPrefix(k, RefKey(p, fold))})
           /\ spelt' = RefDel(spelt, {k \in DOMAIN ref : HasPrefix(k, RefKey(p, fold))})
           /\ last' = Last("DeletePrefix", p, Zero, Zero, FALSE, out.n, out.panic)
    /\ UNCHANGED <<fold, other, mu, threads>>

Next ==
    \/ \E k \in Keys, v \in Values : Set(k, v)
    \/ \E k \in Keys : Delete(k)
    \/ \E p \in Keys : DeletePrefix(p)

Spec == Init /\ [][Next]_vars

-----------------------------------------------------------------------------
(* Two trees: t (root, size) and o (other), with t.Merge(o) and t.MergeMap(m) *)

\* the keys the two trees are changed with: "a" U+00E9, "a" U+00EA
MergeKeys == {<<97, 195, 169>>, <<97, 195, 170>>}

\* the maps handed to MergeMap
MergeMaps == UNION {[S -> Values] : S \in (SUBSET MergeKeys) \ {{}}}

\* the orders in which a range loop can go through the keys of m
Orders(m) ==
    {q \in [1..Cardinality(DOMAIN m) -> DOMAIN m] :
        \A i, j \in DOMAIN q : i # j => q[i] # q[j]}

\* the reference map after the entries of seq were set in turn
RECURSIVE RefSetAll(_, _, _, _)
RefSetAll(rm, seq, i, f) ==
    IF i > Len(seq) THEN rm
    ELSE RefSetAll(RefSet(rm, RefKey(seq[i].key, f), seq[i].val), seq, i + 1, f)

RECURSIVE SpellAll(_, _, _, _)
SpellAll(sp, seq, i, f) ==
    IF i > Len(seq) THEN sp
    ELSE SpellAll(Spell(sp, seq[i].key, f), seq, i + 1, f)

\* o.Set(k, v)
OtherSet(k, v) ==
    /\ Running
    /\ LET out == TreeSet(other.root, k, v, fold)
       IN  /\ other.size + out.grew <= MaxSize
           /\ other' = [root |-> out.node, size |-> other.size + out.grew]
           /\ last' = Last("o.Set", k, v, out.old, out.updated, 0, out.panic)
    /\ UNCHANGED <<root, size, fold, ref, spelt, mu, threads>>

\* t.Merge(o)
Merge ==
    /\ Running
    /\ LET out == TreeMerge(TreeOf(root, size, FALSE), other, fold)
           seq == TreeWalk(other.root, {}).seq
       IN  /\ out.size <= MaxSize
           /\ root' = out.root
           /\ size' = out.size
           /\ ref' = RefSetAll(ref, seq, 1, fold)
           /\ spelt' = SpellAll(spelt, seq, 1, fold)
           /\ last' = Last("Merge", <<>>, TreeToMap(other.root), Zero, FALSE, 0, out.panic)
    /\ UNCHANGED <<fold, other, mu, threads>>

\* t.MergeMap(m); last.val keeps m
MergeMap(m) ==
    /\ Running
    /\ \E order \in Orders(m) :
          LET out == TreeMergeMap(TreeOf(root, size, FALSE), m, order, fold)
              seq == [i \in 1..Len(order) |-> [key |-> order[i], val |-> m[order[i]]]]
          IN  /\ out.size <= MaxSize
              /\ root' = out.root
              /\ size' = out.size
              /\ ref' = RefSetAll(ref, seq, 1, fold)
              /\ spelt' = SpellAll(spelt, seq, 1, fold)
              /\ last' = Last("MergeMap", <<>>, m, Zero, FALSE, 0, out.panic)
    /\ UNCHANGED <<fold, other, mu, threads>>

NextMerge ==
    \/ \E k \in MergeKeys, v \in Values : Set(k, v)
    \/ \E k \in MergeKeys, v \in Values : OtherSet(k, v)
    \/ Merge
    \/ \E m \in MergeMaps : MergeMap(m)

SpecMerge == Init /\ [][NextMerge]_vars

-----------------------------------------------------------------------------
(* The same tree with case folding: New(true) *)

\* runes the keys of the folding tree are written with: 'a', 'A', U+00E9,
\* U+00C9, 'k', U+212A (UTF-8 encoded)
FoldRunes ==
    {<<97>>, <<65>>, <<195, 169>>, <<195, 137>>, <<107>>, <<226, 132, 170>>}

RECURSIVE FoldStringsUpTo(_)
FoldStringsUpTo(n) ==
    IF n = 0 THEN {<<>>}
    ELSE {<<>>} \cup {r \o s : r \in FoldRunes, s \in FoldStringsUpTo(n - 1)}

\* the strings the folding tree is asked about
FoldQueries == {s \in FoldStringsUpTo(MaxRunes) : Len(s) <= MaxLen}

\* the keys the folding tree is changed with: "A", "aA", "a" U+00E9,
\* "A" U+00C9, "k", U+212A
FoldKeys ==
    {<<65>>, <<97, 65>>, <<97, 195, 169>>, <<65, 195, 137>>,
     <<107>>, <<226, 132, 170>>}

InitFold ==
    /\ root = EmptyNode
    /\ size = 0
    /\ fold = TRUE
    /\ ref = <<>>
    /\ last = Last("New", <<>>, Zero, Zero, FALSE, 0, FALSE)
    /\ spelt = <<>>
    /\ other = [root |-> EmptyNode, size |-> 0]
    /\ mu = <<>>
    /\ threads = <<>>

NextFold ==
    \/ \E k \in FoldKeys, v \in Values : Set(k, v)
    \/ \E k \in FoldKeys : Delete(k)
    \/ \E p \in FoldKeys : DeletePrefix(p)

SpecFold == InitFold /\ [][NextFold]_vars

-----------------------------------------------------------------------------
(* Both comparison modes: New(false) or New(true), then every mutating call *)

\* the keys of this tree: "a" U+00E9, "a" U+00EA, "A" U+00EA
ModeKeys == {<<97, 195, 169>>, <<97, 195, 170>>, <<65, 195, 170>>}

\* the maps handed to MergeMap
ModeMaps == UNION {[S -> {1}] : S \in (SUBSET ModeKeys) \ {{}}}

InitModes ==
    /\ root = EmptyNode
    /\ size = 0
    /\ fold \in BOOLEAN
    /\ ref = <<>>
    /\ last = Last("New", <<>>, Zero, Zero, FALSE, 0, FALSE)
    /\ spelt = <<>>
    /\ other = [root |-> EmptyNode, size |-> 0]
    /\ mu = <<>>
    /\ threads = <<>>

NextModes ==
    \/ \E k \in ModeKeys : Set(k, 1)
    \/ \E k \in ModeKeys : Delete(k)
    \/ \E p \in ModeKeys : DeletePrefix(p)
    \/ \E k \in MergeKeys : OtherSet(k, 1)
    \/ Merge
    \/ \E m \in ModeMaps : MergeMap(m)

SpecModes == InitModes /\ [][NextModes]_vars

-----------------------------------------------------------------------------
(* The byte-labelled Tree of radix.go (the go1.18 build), in byte-exact mode. *)
(* Its Insert and Delete are the loops of Set and Delete above with search[0] *)
(* for nextRune(search), which is the same label on single-byte runes; its    *)
(* deletePrefix differs.                                                      *)

\* the keys of this tree: the strings of at most two of 'a', 'b'
Keys118 ==
    {<<>>, <<97>>, <<98>>, <<97, 97>>, <<97, 98>>, <<98, 97>>, <<98, 98>>}

\* deletePrefix(parent, n, "") for the child n at position i of parent: the
\* edge to n stays in the parent
deletePrefixNode118(parent, i, parentIsRoot) ==
    LET n == parent.edges[i].node
        subTreeSize == Len(recursiveWalk(n, {}).seq)
        p1 == [parent EXCEPT !.edges[i].node = Node(NoLeaf, n.prefix, <<>>)]
        p2 == IF ~parentIsRoot /\ Len(p1.edges) = 1 /\ ~isLeafInTheWind(p1)
              THEN mergeChild(p1)
              ELSE p1
    IN  DeletePrefixOut(p2, subTreeSize, FALSE)

\* deletePrefix(parent, n, prefix) for a non-empty prefix
RECURSIVE deletePrefix118(_, _, _)
deletePrefix118(n, prefix, isRoot) ==
    LET label == prefix[1]
        i == getEdge(n, label, FALSE)
    IN  IF i = 0 THEN DeletePrefixOut(n, 0, FALSE)
        ELSE
            LET child == n.edges[i].node
                rest == IF Len(child.prefix) > Len(prefix) THEN <<>>
                        ELSE Drop(prefix, Len(child.prefix))
            IN  IF /\ ~HasPrefix(child.prefix, prefix)
                   /\ ~HasPrefix(prefix, child.prefix)
                THEN DeletePrefixOut(n, 0, FALSE)
                ELSE IF rest = <<>> THEN deletePrefixNode118(n, i, isRoot)
                ELSE LET sub == deletePrefix118(child, rest, FALSE)
                     IN  [sub EXCEPT !.node = [n EXCEPT !.edges[i].node = sub.node]]

TreeDeletePrefix118(t, s) ==
    IF s = <<>>
    THEN DeletePrefixOut(Node(NoLeaf, t.prefix, <<>>),
                         Len(recursiveWalk(t, {}).seq), FALSE)
    ELSE deletePrefix118(t, s, TRUE)

Insert118(k, v) ==
    /\ Running
    /\ LET out == TreeSet(root, k, v, FALSE)
       IN  /\ size + out.grew <= MaxSize
           /\ root' = out.node
           /\ size' = size + out.grew
           /\ ref' = RefSet(ref, k, v)
           /\ spelt' = Spell(spelt, k, FALSE)
           /\ last' = Last("Insert", k, v, out.old, out.updated, 0, out.panic)
    /\ UNCHANGED <<fold, other, mu, threads>>

Delete118(k) ==
    /\ Running
    /\ LET out == TreeDelete(root, k, FALSE)
       IN  /\ root' = out.node
           /\ size' = IF out.ok THEN size - 1 ELSE size
           /\ ref' = RefDel(ref, {k})
           /\ spelt' = RefDel(spelt, {k})
           /\ last' = Last("Delete", k, Zero, out.val, out.ok, 0, FALSE)
    /\ UNCHANGED <<fold, other, mu, threads>>

DeletePrefix118(p) ==
    /\ Running
    /\ LET out == TreeDeletePrefix118(root, p)
       IN  /\ root' = out.node
           /\ size' = size - out.n
           /\ ref' = RefDel(ref, {k \in DOMAIN ref : HasPrefix(k, p)})
           /\ spelt' = RefDel(spelt, {k \in DOMAIN ref : HasPrefix(k, p)})
           /\ last' = Last("DeletePrefix", p, Zero, Zero, FALSE, out.n, out.panic)
    /\ UNCHANGED <<fold, other, mu, threads>>

Next118 ==
    \/ \E k \in Keys118 : Insert118(k, 1)
    \/ \E k \in Keys118 : Delete118(k)
    \/ \E p \in Keys118 : DeletePrefix118(p)

Spec118 == Init /\ [][Next118]_vars

-----------------------------------------------------------------------------
(* The case-folding helpers called on two strings; last keeps the arguments   *)
(* (key, val) and the result (n or ok)                                        *)

InitHelpers ==
    /\ root = EmptyNode
    /\ size = 0
    /\ fold = TRUE
    /\ ref = <<>>
    /\ \E a \in FoldQueries, b \in FoldQueries :
          last = Last("args", a, b, Zero, FALSE, 0, FALSE)
    /\ spelt = <<>>
    /\ other = [root |-> EmptyNode, size |-> 0]
    /\ mu = <<>>
    /\ threads = <<>>

\* LongestPrefixFold(last.key, last.val)
CallLongestPrefixFold ==
    /\ last.op = "args"
    /\ last' = [last EXCEPT !.op = "LongestPrefixFold",
                            !.n = LongestPrefixFold(last.key, last.val)]
    /\ UNCHANGED <<root, size, fold, ref, spelt, other, mu, threads>>

\* HasPrefixFold(last.key, last.val)
CallHasPrefixFold ==
    /\ last.op = "args"
    /\ last' = [last EXCEPT !.op = "HasPrefixFold",
                            !.ok = HasPrefixFold(last.key, last.val)]
    /\ UNCHANGED <<root, size, fold, ref, spelt, other, mu, threads>>

NextHelpers == CallLongestPrefixFold \/ CallHasPrefixFold

SpecHelpers == InitHelpers /\ [][NextHelpers]_vars

-----------------------------------------------------------------------------
(* st := t.Safe(): the SafeTree holds a copy of the Tree struct of t, so the  *)
(* two root nodes are two structs with the same leaf pointer and the same     *)
(* edges slice (one backing array), and every node below the root is one      *)
(* node reached from both.  t is (root, size); st is other, which also keeps  *)
(* whether its root still has the leaf pointer and the backing array of t.    *)
(* Every key starts with 'a', so a root has at most one edge and the backing  *)
(* array one cell.  The calls are made on st; t is only read.                 *)

\* the keys: "", "a", "ab"
ShareKeys == {<<>>, <<97>>, <<97, 98>>}

\* the key sequences t is built from with Set before t.Safe()
ShareSeqs ==
    {<<>>, <<<<>>>>, <<<<97>>>>, <<<<97, 98>>>>, <<<<>>, <<97>>>>,
     <<<<97>>, <<97, 98>>>>, <<<<>>, <<97>>, <<97, 98>>>>}

ShareTrees ==
    {SetAll(TreeOf(EmptyNode, 0, FALSE),
            [i \in 1..Len(ks) |-> [key |-> ks[i], val |-> 1]], 1, FALSE) :
        ks \in ShareSeqs}

\* lt.t of the SafeTree made of the tree tr
SafeOf(tr) ==
    [root |-> tr.root, size |-> tr.size,
     sharesLeaf |-> isLeafInTheWind(tr.root),
     sharesEdges |-> Len(tr.root.edges) > 0]

\* edge{}: the cell delEdge clears at the end of the backing array
NilEdge == [label |-> 0, node |-> EmptyNode]

InitShare ==
    /\ \E tr \in ShareTrees : root = tr.root /\ size = tr.size /\ other = SafeOf(tr)
    /\ fold = FALSE
    /\ ref = <<>>
    /\ last = Last("Safe", <<>>, Zero, Zero, FALSE, 0, FALSE)
    /\ spelt = <<>>
    /\ mu = <<>>
    /\ threads = <<>>

\* the root of t after a call on st has changed the root of st from x to y:
\* a leaf still shared was written in place, and the cell of a backing array
\* still shared holds what st put there, or edge{} after delEdge
OriginalAfter(t, x, y, sharesLeaf, sharesEdges) ==
    [t EXCEPT !.leaf = IF sharesLeaf /\ isLeafInTheWind(y) THEN y.leaf ELSE @,
              !.edges = IF ~sharesEdges THEN @
                        ELSE IF Len(y.edges) = 1 THEN y.edges
                        ELSE IF Len(x.edges) = 1 THEN <<NilEdge>>
                        ELSE @]

\* st after a call that left its root as y and its size as sz; dropped says
\* the call set the root's edges to nil
SafeAfter(y, sz, dropped) ==
    [root |-> y, size |-> sz,
     sharesLeaf |-> other.sharesLeaf /\ isLeafInTheWind(y),
     sharesEdges |-> other.sharesEdges /\ ~dropped]

\* st.Set(k, v)
SafeSet(k, v) ==
    LET out == TreeSet(other.root, k, v, fold)
    IN  /\ other.size + out.grew <= MaxSize
        /\ other' = SafeAfter(out.node, other.size + out.grew, FALSE)
        /\ root' = OriginalAfter(root, other.root, out.node,
                                 other.sharesLeaf, other.sharesEdges)
        /\ last' = Last("st.Set", k, v, out.old, out.updated, 0, out.panic)
        /\ UNCHANGED <<size, fold, ref, spelt, mu, threads>>

\* st.Delete(k)
SafeDelete(k) ==
    LET out == TreeDelete(other.root, k, fold)
    IN  /\ other' = SafeAfter(out.node, IF out.ok THEN other.size - 1 ELSE other.size,
                              FALSE)
        /\ root' = OriginalAfter(root, other.root, out.node,
                                 other.sharesLeaf, other.sharesEdges)
        /\ last' = Last("st.Delete", k, Zero, out.val, out.ok, 0, FALSE)
        /\ UNCHANGED <<size, fold, ref, spelt, mu, threads>>

\* st.DeletePrefix(p); with p = "" it sets the edges of the root of st to nil
\* and leaves the backing array as it is
SafeDeletePrefix(p) ==
    LET out == TreeDeletePrefix(other.root, p, fold)
    IN  /\ other' = SafeAfter(out.node, other.size - out.n, p = <<>>)
        /\ root' = OriginalAfter(root, other.root, out.node,
                                 other.sharesLeaf, other.sharesEdges /\ p # <<>>)
        /\ last' = Last("st.DeletePrefix", p, Zero, Zero, FALSE, out.n, out.panic)
        /\ UNCHANGED <<size, fold, ref, spelt, mu, threads>>

NextShare ==
    \/ \E k \in ShareKeys, v \in Values : SafeSet(k, v)
    \/ \E k \in ShareKeys : SafeDelete(k)
    \/ \E p \in ShareKeys : SafeDeletePrefix(p)

SpecShare == InitShare /\ [][NextShare]_vars

-----------------------------------------------------------------------------
(* SafeTree: two wrapped trees a (root, size) and b (other), each behind its  *)
(* sync.RWMutex m (mu), and threads that each make one call on them           *)

\* the number of threads
NThreads == 2

Threads == 1..NThreads

SafeTrees == {"a", "b"}

\* the keys the threads use: "a" U+00E9, "a" U+00EA
SafeKeys == {<<97, 195, 169>>, <<97, 195, 170>>}

\* the values the threads store
SafeValues == {1}

\* lt.t of the wrapped tree x
TreeVal(x) == IF x = "a" THEN [root |-> root, size |-> size] ELSE other

ReadOps == {"Get", "Walk", "Dump"}

WriteOps == {"Set", "Delete", "DeletePrefix", "MergeMap", "Update"}

\* a call: the method, the tree it is called on, for Merge the tree merged
\* in, and the key and value arguments
CallOf(op, on, from, key, val) ==
    [op |-> op, on |-> on, from |-> from, key |-> key, val |-> val]

NoCall == CallOf("none", "a", "a", <<>>, Zero)

Calls ==
    {CallOf("Set", x, x, k, v) : x \in SafeTrees, k \in SafeKeys, v \in SafeValues}
    \cup {CallOf(op, x, x, k, Zero) : op \in {"Delete", "Get"}, x \in SafeTrees,
                                      k \in SafeKeys}
    \cup {CallOf("MergeMap", x, x, <<97>>, v) : x \in SafeTrees, v \in SafeValues}
    \cup {CallOf(op, x, x, <<97>>, Zero) : op \in {"DeletePrefix", "Update", "Walk"},
                                         x \in SafeTrees}
    \cup {CallOf("Merge", x, y, <<>>, Zero) : x \in SafeTrees, y \in SafeTrees}

Step(act, x) == [act |-> act, x |-> x]

\* every method taking the lock in shared mode
PlanAllShared(c) ==
    IF c.op = "Merge"
    THEN <<Step("RLock", c.from), Step("RLock", c.on), Step("Begin", c.on),
           Step("End", c.on), Step("RUnlock", c.on), Step("RUnlock", c.from)>>
    ELSE <<Step("RLock", c.on), Step("Begin", c.on), Step("End", c.on),
           Step("RUnlock", c.on)>>

\* what a method does with the locks around its call on the bare tree
Plan(c) ==
    IF c.op = "Merge"
    THEN <<Step("RLock", c.from), Step("Lock", c.on), Step("Begin", c.on),
           Step("End", c.on), Step("Unlock", c.on), Step("RUnlock", c.from)>>
    ELSE IF c.op \in WriteOps
    THEN <<Step("Lock", c.on), Step("Begin", c.on), Step("End", c.on),
           Step("Unlock", c.on)>>
    ELSE IF c.op = "Dump"
    THEN <<Step("RLock", c.on), Step("Begin", c.on), Step("End", c.on),
           Step("Unlock", c.on)>>
    ELSE <<Step("RLock", c.on), Step("Begin", c.on), Step("End", c.on),
           Step("RUnlock", c.on)>>

\* a thread: its call, the step of the plan it is at, whether it sleeps in
\* that step, and the tree as it read it when its call on the bare tree began
Thread(c, i, waiting, snap) == [call |-> c, i |-> i, waiting |-> waiting, snap |-> snap]

NoSnap == [root |-> EmptyNode, size |-> 0]

Idle(t) == threads[t].call = NoCall

Returned(t) == ~Idle(t) /\ threads[t].i > Len(Plan(threads[t].call))

InCall(t) == ~Idle(t) /\ ~Returned(t)

\* the step thread t is at
At(t) == Plan(threads[t].call)[threads[t].i]

IsAt(t, act) == InCall(t) /\ At(t).act = act

\* a sync.RWMutex: the number of readers holding it, the writer that has
\* announced itself (0 for none), and whether that writer holds it
RWMutex(readers, w, held) == [readers |-> readers, w |-> w, held |-> held]

InitSafe ==
    /\ root = EmptyNode
    /\ size = 0
    /\ fold = FALSE
    /\ ref = <<>>
    /\ last = Last("NewSafe", <<>>, Zero, Zero, FALSE, 0, FALSE)
    /\ spelt = <<>>
    /\ other = [root |-> EmptyNode, size |-> 0]
    /\ mu = [x \in SafeTrees |-> RWMutex(0, 0, FALSE)]
    /\ threads = [t \in Threads |-> Thread(NoCall, 1, FALSE, NoSnap)]

\* thread t calls a method
Call(t, c) ==
    /\ Running
    /\ Idle(t)
    /\ threads' = [threads EXCEPT ![t] = Thread(c, 1, FALSE, NoSnap)]
    /\ UNCHANGED <<root, size, fold, ref, last, spelt, other, mu>>

\* m.RLock(): take the lock in shared mode, or sleep while a writer has
\* announced itself
RLock(t) ==
    /\ Running
    /\ IsAt(t, "RLock") /\ ~threads[t].waiting
    /\ IF mu[At(t).x].w = 0
       THEN /\ mu' = [mu EXCEPT ![At(t).x].readers = @ + 1]
            /\ threads' = [threads EXCEPT ![t].i = @ + 1]
       ELSE /\ threads' = [threads EXCEPT ![t].waiting = TRUE]
            /\ UNCHANGED mu
    /\ UNCHANGED <<root, size, fold, ref, last, spelt, other>>

\* m.Lock(), first half: become the one writer and keep new readers out
LockAnnounce(t) ==
    /\ Running
    /\ IsAt(t, "Lock") /\ ~threads[t].waiting
    /\ mu[At(t).x].w = 0
    /\ mu' = [mu EXCEPT ![At(t).x].w = t]
    /\ threads' = [threads EXCEPT ![t].waiting = TRUE]
    /\ UNCHANGED <<root, size, fold, ref, last, spelt, other>>

\* m.Lock(), second half: go on once the readers have left
LockAcquire(t) ==
    /\ Running
    /\ IsAt(t, "Lock") /\ threads[t].waiting
    /\ mu[At(t).x].readers = 0
    /\ mu' = [mu EXCEPT ![At(t).x].held = TRUE]
    /\ threads' = [threads EXCEPT ![t].i = @ + 1, ![t].waiting = FALSE]
    /\ UNCHANGED <<root, size, fold, ref, last, spelt, other>>

\* the call on the bare tree begins: it reads the tree
Begin(t) ==
    /\ Running
    /\ IsAt(t, "Begin")
    /\ threads' = [threads EXCEPT ![t].i = @ + 1, ![t].snap = TreeVal(At(t).x)]
    /\ UNCHANGED <<root, size, fold, ref, last, spelt, other, mu>>

\* the routine handed to Update: two Set calls on the bare tree
UpdateRoutine(t) ==
    SetAll(t, <<[key |-> <<97, 195, 169>>, val |-> 1],
                [key |-> <<97, 195, 170>>, val |-> 2]>>, 1, fold)

\* the tree the call of thread t leaves behind, from the tree it read
Effect(t) ==
    LET c == threads[t].call
        tr == TreeOf(threads[t].snap.root, threads[t].snap.size, FALSE)
    IN  IF c.op = "Set"
        THEN SetAll(tr, <<[key |-> c.key, val |-> c.val]>>, 1, fold)
        ELSE IF c.op = "Delete"
        THEN LET out == TreeDelete(tr.root, c.key, fold)
             IN  TreeOf(out.node, IF out.ok THEN tr.size - 1 ELSE tr.size, FALSE)
        ELSE IF c.op = "DeletePrefix"
        THEN LET out == TreeDeletePrefix(tr.root, c.key, fold)
             IN  TreeOf(out.node, tr.size - out.n, out.panic)
        ELSE IF c.op = "MergeMap"
        THEN TreeMergeMap(tr, [k \in {c.key} |-> c.val], <<c.key>>, fold)
        ELSE IF c.op = "Update" THEN UpdateRoutine(tr)
        ELSE IF c.op = "Merge" THEN TreeMerge(tr, TreeVal(c.from), fold)
        ELSE tr

\* the call on the bare tree ends: a mutating call has written the tree
End(t) ==
    /\ Running
    /\ IsAt(t, "End")
    /\ ~Effect(t).panic
    /\ threads' = [threads EXCEPT ![t].i = @ + 1]
    /\ IF threads[t].call.op \in ReadOps
       THEN UNCHANGED <<root, size, other>>
       ELSE IF At(t).x = "a"
       THEN root' = Effect(t).root /\ size' = Effect(t).size /\ UNCHANGED other
       ELSE /\ other' = [root |-> Effect(t).root, size |-> Effect(t).size]
            /\ UNCHANGED <<root, size>>
    /\ UNCHANGED <<fold, ref, last, spelt, mu>>

\* m.Unlock(): with no writer announced the runtime ends the program
\* ("fatal error: sync: Unlock of unlocked RWMutex"); otherwise the lock is
\* no longer a writer's, and the readers that slept on it now hold it
Unlock(t) ==
    /\ Running
    /\ IsAt(t, "Unlock")
    /\ LET x == At(t).x
           woken == {u \in Threads : IsAt(u, "RLock") /\ threads[u].waiting /\ At(u).x = x}
       IN  IF mu[x].w = 0
           THEN /\ last' = Last("fatal", <<>>, Zero, Zero, FALSE, 0, TRUE)
                /\ UNCHANGED <<mu, threads>>
           ELSE /\ mu' = [mu EXCEPT ![x] = RWMutex(@.readers + Cardinality(woken), 0, FALSE)]
                /\ threads' = [u \in Threads |->
                        IF u = t THEN [threads[u] EXCEPT !.i = @ + 1]
                        ELSE IF u \in woken
                        THEN [threads[u] EXCEPT !.i = @ + 1, !.waiting = FALSE]
                        ELSE threads[u]]
                /\ UNCHANGED last
    /\ UNCHANGED <<root, size, fold, ref, spelt, other>>

\* m.RUnlock()
RUnlock(t) ==
    /\ Running
    /\ IsAt(t, "RUnlock")
    /\ mu' = [mu EXCEPT ![At(t).x].readers = @ - 1]
    /\ threads' = [threads EXCEPT ![t].i = @ + 1]
    /\ UNCHANGED <<root, size, fold, ref, last, spelt, other>>

NextSafe ==
    \E t \in Threads :
        \/ \E c \in Calls : Call(t, c)
        \/ RLock(t)
        \/ LockAnnounce(t)
        \/ LockAcquire(t)
        \/ Begin(t)
        \/ End(t)
        \/ Unlock(t)
        \/ RUnlock(t)

SpecSafe == InitSafe /\ [][NextSafe]_vars

\* the calls of the threads when Dump is among them
DumpCalls ==
    {CallOf("Dump", "a", "a", <<>>, Zero),
     CallOf("Get", "a", "a", <<97, 195, 169>>, Zero),
     CallOf("Walk", "a", "a", <<97>>, Zero),
     CallOf("Set", "a", "a", <<97, 195, 169>>, 1),
     CallOf("Update", "a", "a", <<97>>, Zero),
     CallOf("Delete", "a", "a", <<97, 195, 169>>, Zero)}

NextDump ==
    \E t \in Threads :
        \/ \E c \in DumpCalls : Call(t, c)
        \/ RLock(t)
        \/ LockAnnounce(t)
        \/ LockAcquire(t)
        \/ Begin(t)
        \/ End(t)
        \/ Unlock(t)
        \/ RUnlock(t)

SpecDump == InitSafe /\ [][NextDump]_vars

-----------------------------------------------------------------------------
(* Threads querying one bare tree, each query taken one loop iteration (one   *)
(* step of recursiveWalk) at a time; the callbacks never stop the walk        *)

\* the key sequences the queried tree is built from with Set:
\* none; "a" U+00E9; "a", "a" U+00E9; "a" U+00E9, "a" U+00EA;
\* "", "a", "aa", "a" U+00E9
QuerySeqs ==
    {<<>>,
     <<<<97, 195, 169>>>>,
     <<<<97>>, <<97, 195, 169>>>>,
     <<<<97, 195, 169>>, <<97, 195, 170>>>>,
     <<<<>>, <<97>>, <<97, 97>>, <<97, 195, 169>>>>}

QueryTrees ==
    {SetAll(TreeOf(EmptyNode, 0, FALSE),
            [i \in 1..Len(ks) |-> [key |-> ks[i], val |-> i]], 1, FALSE) :
        ks \in QuerySeqs}

\* the strings the queries are about: "a", "a" U+00E9, "aa"
QueryKeys == {<<97>>, <<97, 195, 169>>, <<97, 97>>}

QueryOf(op, arg) == [op |-> op, arg |-> arg]

Queries ==
    {QueryOf(op, k) : op \in {"Get", "LongestPrefix", "WalkPrefix", "WalkPath",
                              "WalkNearestPath"},
                     k \in QueryKeys}
    \cup {QueryOf(op, <<>>) : op \in {"Minimum", "Maximum", "Len", "Walk", "ToMap"}}

\* the locals of a running query: where it is ("loop", "walk", "done"), the
\* node n points to (its position), search, last (<<>> for nil), the frames
\* of recursiveWalk, the leaves fn was called with, and the result
Local(q, pc, n, search, lst, stack, seen, res) ==
    [q |-> q, pc |-> pc, n |-> n, search |-> search, last |-> lst,
     stack |-> stack, seen |-> seen, res |-> res]

NoQuery == Local(QueryOf("none", <<>>), "idle", <<>>, <<>>, <<>>, <<>>, <<>>, Zero)

\* a frame of recursiveWalk: the node, whether its leaf was visited, and the
\* edge the range loop is at
Frame(pos) == [pos |-> pos, visited |-> FALSE, i |-> 1]

QDone(th, res) == [th EXCEPT !.pc = "done", !.res = res]

QWalkFrom(th, pos) == [th EXCEPT !.pc = "walk", !.stack = <<Frame(pos)>>]

QStart(q) ==
    IF q.op \in {"Walk", "ToMap"}
    THEN QWalkFrom(Local(q, "walk", <<>>, <<>>, <<>>, <<>>, <<>>, Zero), <<>>)
    ELSE Local(q, "loop", <<>>, q.arg, <<>>, <<>>, <<>>, Zero)

\* the edge the loop takes from the node n points to, 0 for nil
QEdge(th, t) == getEdge(NodeAt(t, th.n), nextRune(th.search), fold)

\* the loop going down an edge without consuming the prefix
QConsumeNothing(th, t, i) == [th EXCEPT !.n = th.n \o <<i>>]

\* n = the child at edge i, search = search[len(n.prefix):]
QConsume(th, t, i) ==
    [th EXCEPT !.n = th.n \o <<i>>,
               !.search = Drop(th.search, Len(NodeAt(t, th.n \o <<i>>).prefix))]

\* hp(search, n.prefix) for the child at edge i
QMatches(th, t, i) == hasPrefixFn(fold, th.search, NodeAt(t, th.n \o <<i>>).prefix)

\* one iteration of the loop of Get
QGet(th, t) ==
    IF th.search = <<>>
    THEN QDone(th, IF isLeafInTheWind(NodeAt(t, th.n))
                   THEN GetOut(NodeAt(t, th.n).leaf[1].val, TRUE)
                   ELSE GetOut(Zero, FALSE))
    ELSE IF QEdge(th, t) = 0 THEN QDone(th, GetOut(Zero, FALSE))
    ELSE IF QMatches(th, t, QEdge(th, t)) THEN QConsume(th, t, QEdge(th, t))
    ELSE QDone(th, GetOut(Zero, FALSE))

\* one iteration of the loop of LongestPrefix
QLongestPrefix(th, t) ==
    LET last1 == IF isLeafInTheWind(NodeAt(t, th.n)) THEN NodeAt(t, th.n).leaf
                 ELSE th.last
    IN  IF th.search = <<>> THEN QDone(th, LeafOut(last1))
        ELSE IF QEdge(th, t) = 0 THEN QDone(th, LeafOut(last1))
        ELSE IF QMatches(th, t, QEdge(th, t))
        THEN [QConsume(th, t, QEdge(th, t)) EXCEPT !.last = last1]
        ELSE QDone(th, LeafOut(last1))

\* one iteration of the loop of WalkPrefix
QWalkPrefix(th, t) ==
    IF th.search = <<>> THEN QWalkFrom(th, th.n)
    ELSE IF QEdge(th, t) = 0 THEN QDone(th, WalkOut(<<>>, FALSE))
    ELSE IF QMatches(th, t, QEdge(th, t)) THEN QConsume(th, t, QEdge(th, t))
    ELSE IF hasPrefixFn(fold, NodeAt(t, th.n \o <<QEdge(th, t)>>).prefix, th.search)
    THEN QWalkFrom(th, th.n \o <<QEdge(th, t)>>)
    ELSE QDone(th, WalkOut(<<>>, FALSE))

\* one iteration of the loop of WalkPath
QWalkPath(th, t) ==
    LET seen1 == th.seen \o NodeAt(t, th.n).leaf
    IN  IF th.search = <<>> THEN QDone(th, WalkOut(seen1, FALSE))
        ELSE IF QEdge(th, t) = 0 THEN QDone(th, WalkOut(seen1, FALSE))
        ELSE IF QMatches(th, t, QEdge(th, t))
        THEN [QConsume(th, t, QEdge(th, t)) EXCEPT !.seen = seen1]
        ELSE QDone(th, WalkOut(seen1, FALSE))

\* the end of WalkNearestPath: recursiveWalk(last, fn) unless last is nil
QNearestEnd(th, lst) ==
    IF lst # <<>> THEN QWalkFrom(th, lst[1]) ELSE QDone(th, WalkOut(<<>>, FALSE))

\* one iteration of the loop of WalkNearestPath
QWalkNearestPath(th, t) ==
    LET last1 == IF isLeafInTheWind(NodeAt(t, th.n)) THEN <<th.n>> ELSE th.last
    IN  IF th.search = <<>> THEN QNearestEnd(th, last1)
        ELSE IF QEdge(th, t) = 0 THEN QNearestEnd(th, last1)
        ELSE IF QMatches(th, t, QEdge(th, t))
        THEN [QConsume(th, t, QEdge(th, t)) EXCEPT !.last = <<th.n \o <<QEdge(th, t)>>>>]
        ELSE QNearestEnd(th, <<th.n \o <<QEdge(th, t)>>>>)

\* one iteration of the loop of Minimum
QMinimum(th, t) ==
    IF isLeafInTheWind(NodeAt(t, th.n)) THEN QDone(th, LeafOut(NodeAt(t, th.n).leaf))
    ELSE IF Len(NodeAt(t, th.n).edges) > 0 THEN [th EXCEPT !.n = th.n \o <<1>>]
    ELSE QDone(th, LeafOut(NoLeaf))

\* one iteration of the loop of Maximum
QMaximum(th, t) ==
    IF Len(NodeAt(t, th.n).edges) > 0
    THEN [th EXCEPT !.n = th.n \o <<Len(NodeAt(t, th.n).edges)>>]
    ELSE QDone(th, LeafOut(NodeAt(t, th.n).leaf))

\* one step of recursiveWalk: visit the leaf of the node of the top frame,
\* or call recursiveWalk for its next edge, or return
QRecursiveWalk(th, t) ==
    LET top == th.stack[Len(th.stack)]
        below == Front(th.stack)
    IN  IF ~top.visited
        THEN [th EXCEPT !.seen = th.seen \o NodeAt(t, top.pos).leaf,
                        !.stack = below \o <<[top EXCEPT !.visited = TRUE]>>]
        ELSE IF top.i <= Len(NodeAt(t, top.pos).edges)
        THEN [th EXCEPT !.stack = below \o <<[top EXCEPT !.i = top.i + 1]>>
                                        \o <<Frame(top.pos \o <<top.i>>)>>]
        ELSE IF below # <<>> THEN [th EXCEPT !.stack = below]
        ELSE QDone([th EXCEPT !.stack = below],
                   IF th.q.op = "ToMap" THEN MapOf(th.seen)
                   ELSE WalkOut(th.seen, FALSE))

\* the next step of the query of a thread on the tree t of size sz
QStep(th, t, sz) ==
    IF th.pc = "walk" THEN QRecursiveWalk(th, t)
    ELSE IF th.q.op = "Get" THEN QGet(th, t)
    ELSE IF th.q.op = "LongestPrefix" THEN QLongestPrefix(th, t)
    ELSE IF th.q.op = "WalkPrefix" THEN QWalkPrefix(th, t)
    ELSE IF th.q.op = "WalkPath" THEN QWalkPath(th, t)
    ELSE IF th.q.op = "WalkNearestPath" THEN QWalkNearestPath(th, t)
    ELSE IF th.q.op = "Minimum" THEN QMinimum(th, t)
    ELSE IF th.q.op = "Maximum" THEN QMaximum(th, t)
    ELSE QDone(th, sz)

InitQuery ==
    /\ \E t \in QueryTrees : root = t.root /\ size = t.size
    /\ fold = FALSE
    /\ ref = <<>>
    /\ last = Last("New", <<>>, Zero, Zero, FALSE, 0, FALSE)
    /\ spelt = <<>>
    /\ other = [root |-> EmptyNode, size |-> 0]
    /\ mu = <<>>
    /\ threads = [t \in Threads |-> NoQuery]

\* thread t calls a query of the bare tree
Query(t, q) ==
    /\ threads[t].pc = "idle"
    /\ threads' = [threads EXCEPT ![t] = QStart(q)]
    /\ UNCHANGED <<root, size, fold, ref, last, spelt, other, mu>>

\* thread t goes on with its query; no statement of a query assigns to the
\* tree
QueryStep(t) ==
    /\ threads[t].pc \in {"loop", "walk"}
    /\ threads' = [threads EXCEPT ![t] = QStep(threads[t], root, size)]
    /\ UNCHANGED <<root, size, fold, ref, last, spelt, other, mu>>

NextQuery ==
    \E t \in Threads :
        \/ \E q \in Queries : Query(t, q)
        \/ QueryStep(t)

SpecQuery == InitQuery /\ [][NextQuery]_vars

-----------------------------------------------------------------------------
(* What the reference map says the queries should return *)

StoredKeys == DOMAIN ref

\* byte-wise lexicographic order of Go strings
LexLess(a, b) ==
    LET cp == LongestPrefix(a, b)
    IN  IF cp = Len(a) THEN Len(b) > cp
        ELSE IF cp = Len(b) THEN FALSE
        ELSE a[cp + 1] < b[cp + 1]

LeastKey(S) == CHOOSE k \in S : \A j \in S : j = k \/ LexLess(k, j)

GreatestKey(S) == CHOOSE k \in S : \A j \in S : j = k \/ LexLess(j, k)

\* the keys of S in increasing order
RECURSIVE SortedKeys(_)
SortedKeys(S) ==
    IF S = {} THEN <<>>
    ELSE <<LeastKey(S)>> \o SortedKeys(S \ {LeastKey(S)})

RefEntry(k) == KeyOut(k, ref[k], TRUE)

NoEntry == KeyOut(<<>>, Zero, FALSE)

KeysOf(seq) == [i \in 1..Len(seq) |-> seq[i].key]

Get(k) == TreeGet(root, k, fold)

\* the keys held by the leaves of the tree under n
HeldKeys(n) == {l.key : l \in {recursiveWalk(n, {}).seq[i] :
                                   i \in 1..Len(recursiveWalk(n, {}).seq)}}

-----------------------------------------------------------------------------
(* The claims *)

\* C1: the tree agrees with the reference map driven by the same Set, Delete
\* and DeletePrefix calls: for every key k, Get(k) returns (v, true) exactly
\* when the map holds k -> v, and (zero, false) otherwise.
C1_GetAgreesWithMap ==
    Running => \A k \in Keys : Get(k) = RefGet(ref, k)

\* C2: Set on a key that is not stored returns (zero, false) and adds one to
\* Len(); Set on a stored key returns (its value, true), leaves Len() as it
\* was, and Get then returns the new value.
C2_SetResult ==
    [][last'.op = "Set" =>
        /\ ~last'.panic
        /\ IF last'.key \in StoredKeys
           THEN /\ last'.ok /\ last'.old = ref[last'.key]
                /\ size' = size
           ELSE /\ ~last'.ok /\ last'.old = Zero
                /\ size' = size + 1
        /\ TreeGet(root', last'.key, fold) = GetOut(last'.val, TRUE)]_vars

\* C3: Delete of a stored key returns (its value, true); afterwards Get of it
\* returns (zero, false), Len() is one less, and every other stored key is still
\* returned by Get with its value.
C3_DeleteStored ==
    [][(last'.op = "Delete" /\ last'.key \in StoredKeys) =>
        /\ last'.ok /\ last'.old = ref[last'.key]
        /\ TreeGet(root', last'.key, fold) = GetOut(Zero, FALSE)
        /\ size' = size - 1
        /\ \A k \in StoredKeys \ {last'.key} :
              TreeGet(root', k, fold) = GetOut(ref[k], TRUE)]_vars

C5_DeletePrefix ==
    [][last'.op = "DeletePrefix" =>
        LET gone == {k \in StoredKeys : HasPrefix(k, last'.key)}
        IN  /\ ~last'.panic
            /\ last'.n = Cardinality(gone)
            /\ size' = size - Cardinality(gone)
            /\ \A k \in gone : TreeGet(root', k, fold) = GetOut(Zero, FALSE)
            /\ \A k \in StoredKeys \ gone :
                  TreeGet(root', k, fold) = GetOut(ref[k], TRUE)
            /\ (gone = {} => root' = root)]_vars

\* C6: LongestPrefix(q) returns the longest stored key that is a prefix of q,
\* with its value, and ("", zero, false) exactly when no stored key is a
\* prefix of q.
C6_LongestPrefix ==
    Running =>
        \A q \in Keys :
            LET P == {k \in StoredKeys : HasPrefix(q, k)}
            IN  TreeLongestPrefix(root, q, fold) =
                    IF P = {} THEN NoEntry
                    ELSE RefEntry(CHOOSE k \in P : \A j \in P : Len(j) <= Len(k))

\* C7: Minimum() and Maximum() report not found exactly when the tree holds
\* no key, and otherwise the smallest and the largest stored key with its value.
C7_MinimumMaximum ==
    Running =>
        IF StoredKeys = {}
        THEN TreeMinimum(root) = NoEntry /\ TreeMaximum(root) = NoEntry
        ELSE /\ TreeMinimum(root) = RefEntry(LeastKey(StoredKeys))
             /\ TreeMaximum(root) = RefEntry(GreatestKey(StoredKeys))

\* C8: Walk with a callback that never stops calls it once for every stored
\* key and for nothing else, in strictly increasing key order.
C8_WalkSorted ==
    Running =>
        /\ KeysOf(TreeWalk(root, {}).seq) = SortedKeys(StoredKeys)
        /\ ~TreeWalk(root, {}).stopped

\* C9: WalkPrefix(p, fn) with a callback that never stops visits exactly the
\* stored keys that start with p, each once.
C9_WalkPrefix ==
    Running =>
        \A p \in Keys :
            LET seq == TreeWalkPrefix(root, p, {}, fold).seq
                want == {k \in StoredKeys : HasPrefix(k, p)}
            IN  /\ {seq[i].key : i \in 1..Len(seq)} = want
                /\ Len(seq) = Cardinality(want)

\* C10: WalkPath(path, fn) with a callback that never stops visits exactly
\* the stored keys that are prefixes of path, shortest first.
C10_WalkPath ==
    Running =>
        \A path \in Keys :
            KeysOf(TreeWalkPath(root, path, {}, fold).seq) =
                SortedKeys({k \in StoredKeys : HasPrefix(path, k)})

-----------------------------------------------------------------------------
(* Nodes by position, and the descent of a lookup *)

Longest(S) == CHOOSE p \in S : \A q \in S : Len(q) <= Len(p)

\* what is left of path below the node at pos
RestAt(pos, path) == Drop(path, Len(PathPrefix(root, pos)))

\* a lookup of path standing at the parent of pos takes the edge to pos
Entered(pos, path) ==
    /\ RestAt(Front(pos), path) # <<>>
    /\ getEdge(NodeAt(root, Front(pos)), nextRune(RestAt(Front(pos), path)), fold)
           = pos[Len(pos)]

\* the prefix of the node at pos starts what is left of path at its parent
Matches(pos, path) ==
    hasPrefixFn(fold, RestAt(Front(pos), path), NodeAt(root, pos).prefix)

\* a lookup of path enters the node at pos: it takes every edge on the way and
\* the prefix of every node above pos matches
Reached(pos, path) ==
    \A j \in 1..Len(pos) :
        /\ Entered(Take(pos, j), path)
        /\ (j < Len(pos) => Matches(Take(pos, j), path))

\* the node at pos is on the matched descent of path
OnMatchedPath(pos, path) ==
    Reached(pos, path) /\ (pos # <<>> => Matches(pos, path))

\* the positions of the nodes with a leaf on the matched descent of path
MatchedLeaves(path) ==
    {p \in Positions(root) : OnMatchedPath(p, path) /\ isLeafInTheWind(NodeAt(root, p))}

\* the positions of the nodes below the root the descent of path enters
EnteredNodes(path) == {p \in Positions(root) \ {<<>>} : Reached(p, path)}

\* C11 (as stated): WalkNearestPath(path, fn) walks the subtree of the last
\* node with a leaf on the matched descent of path, and visits nothing when no
\* node on the matched descent has a leaf.
C11_NearestPathStartsAtLeaf ==
    Running =>
        \A path \in Keys :
            TreeWalkNearestPath(root, path, {}, fold) =
                IF MatchedLeaves(path) = {} THEN WalkOut(<<>>, FALSE)
                ELSE recursiveWalk(NodeAt(root, Longest(MatchedLeaves(path))), {})

\* C11 (amended): WalkNearestPath(path, fn) walks the subtree of the deepest
\* node its descent enters through an edge, whether or not that node has a leaf
\* and whether or not its prefix matches what is left of path; when the descent
\* enters no node it walks from the root if the root has a leaf and visits
\* nothing otherwise.
C11_NearestPathStartsAtDeepest ==
    Running =>
        \A path \in Keys :
            TreeWalkNearestPath(root, path, {}, fold) =
                IF EnteredNodes(path) # {}
                THEN recursiveWalk(NodeAt(root, Longest(EnteredNodes(path))), {})
                ELSE IF isLeafInTheWind(root) THEN recursiveWalk(root, {})
                ELSE WalkOut(<<>>, FALSE)

\* C11 witness: a path whose matched descent has no leaf, while the walk
\* starts at a leafless node the descent entered and visits two keys.
C11_Witness ==
    \E path \in Keys :
        /\ MatchedLeaves(path) = {}
        /\ EnteredNodes(path) # {}
        /\ ~isLeafInTheWind(NodeAt(root, Longest(EnteredNodes(path))))
        /\ Len(TreeWalkNearestPath(root, path, {}, fold).seq) >= 2

-----------------------------------------------------------------------------
(* Stopping a walk *)

\* the callbacks that tell the keys of the tree apart: one for every set of
\* held keys at which fn returns true
StopSets == SUBSET HeldKeys(root)

\* fn returned true at most once, at its last call, and the walk returned
\* true exactly when it did
StopHonoured(out, stop) ==
    /\ \A i \in 1..(Len(out.seq) - 1) : out.seq[i].key \notin stop
    /\ out.stopped = (out.seq # <<>> /\ out.seq[Len(out.seq)].key \in stop)

\* C12: in Walk, WalkPrefix, WalkPath and WalkNearestPath, once the callback
\* has returned true it is not called again during that call, and the walk
\* returns true exactly when the callback asked for the stop.
C12_StopHonoured ==
    Running =>
        \A stop \in StopSets :
            /\ StopHonoured(TreeWalk(root, stop), stop)
            /\ \A p \in Keys :
                  /\ StopHonoured(TreeWalkPrefix(root, p, stop, fold), stop)
                  /\ StopHonoured(TreeWalkPath(root, p, stop, fold), stop)
                  /\ StopHonoured(TreeWalkNearestPath(root, p, stop, fold), stop)

\* C12 witness: a callback that stops Walk two levels below the root, at its
\* second call, with a key left that it is never called with.
C12_Witness ==
    \E stop \in StopSets :
        /\ TreeWalk(root, stop).stopped
        /\ Len(TreeWalk(root, stop).seq) = 2
        /\ Len(TreeWalk(root, {}).seq) = 3
        /\ ~isLeafInTheWind(root)
        /\ Len(root.edges) = 1

-----------------------------------------------------------------------------
(* Case folding *)

EqualFold(a, b) == FoldKey(a) = FoldKey(b)

\* C13: on a folding tree, after Set(k1, v) every k2 equal to k1 up to case
\* gets (v, true); a Set of a key that is stored up to case reports an update
\* with the stored value and leaves Len() alone, any other Set adds one; and
\* Len() is the number of stored keys counted up to case.
C13_FoldedKeysShareEntry ==
    [][last'.op = "Set" =>
        /\ ~last'.panic
        /\ \A k2 \in FoldQueries :
              EqualFold(k2, last'.key) =>
                  TreeGet(root', k2, fold) = GetOut(last'.val, TRUE)
        /\ IF FoldKey(last'.key) \in StoredKeys
           THEN /\ last'.ok /\ last'.old = ref[FoldKey(last'.key)]
                /\ size' = size
           ELSE /\ ~last'.ok /\ last'.old = Zero
                /\ size' = size + 1
        /\ size' = Cardinality(DOMAIN ref')]_vars

\* C14: on a folding tree LongestPrefix(q) returns the longest stored key
\* that is a prefix of q up to case, in the spelling it was first stored with
\* and with its value, and ("", zero, false) when there is none.
C14_LongestPrefixFold ==
    Running =>
        \A q \in FoldQueries :
            LET P == {k \in StoredKeys : HasPrefix(FoldKey(q), k)}
                best == CHOOSE k \in P : \A j \in P : Len(j) <= Len(k)
            IN  TreeLongestPrefix(root, q, fold) =
                    IF P = {} THEN NoEntry
                    ELSE KeyOut(spelt[best], ref[best], TRUE)

-----------------------------------------------------------------------------
(* Len() *)

\* the number of leaves reachable from n
LeafCount(n) == Len(recursiveWalk(n, {}).seq)

\* C15: in every reachable state Len() is the number of leaves reachable from
\* the root, which is the number of distinct keys the tree holds, and it is
\* never negative.
C15_LenCountsKeys ==
    Running =>
        /\ size = LeafCount(root)
        /\ LeafCount(root) = Cardinality(HeldKeys(root))
        /\ size >= 0

-----------------------------------------------------------------------------
(* Merge, MergeMap and ToMap *)

\* C16: after t.Merge(o), and after t.MergeMap(m), every key of o (of m) is
\* stored in t with the value o (m) has for it, every other key t had keeps
\* its value, o is as it was, and t.Len() is the number of keys of the union.
C16_Merge ==
    [][last'.op \in {"Merge", "MergeMap"} =>
        /\ ~last'.panic
        /\ \A k \in DOMAIN last'.val :
              TreeGet(root', k, fold) = GetOut(last'.val[k], TRUE)
        /\ \A k \in StoredKeys \ DOMAIN last'.val :
              TreeGet(root', k, fold) = GetOut(ref[k], TRUE)
        /\ other' = other
        /\ size' = Cardinality(StoredKeys \cup DOMAIN last'.val)]_vars

\* C17: a fresh tree into which every entry of t.ToMap() is inserted, in
\* whatever order, gives for every key the Get result t gives, and has t's
\* Len().
C17_ToMapRoundTrip ==
    Running =>
        \A order \in Orders(TreeToMap(root)) :
            LET fresh == TreeMergeMap(TreeOf(EmptyNode, 0, FALSE),
                                      TreeToMap(root), order, fold)
            IN  /\ ~fresh.panic
                /\ \A k \in Keys :
                      TreeGet(fresh.root, k, fold) = TreeGet(root, k, fold)
                /\ fresh.size = size

-----------------------------------------------------------------------------
(* The wrapper's lock *)

\* thread t is inside its call on the bare tree: it has begun and not ended
Executing(t) == IsAt(t, "End")

Mutates(t) == threads[t].call.op \notin ReadOps

\* the wrapped trees the call of thread t reads or writes
Touches(t) ==
    IF threads[t].call.op = "Merge"
    THEN {threads[t].call.on, threads[t].call.from}
    ELSE {threads[t].call.on}

\* the threads have all returned from Set calls, no two for the same key of
\* the same tree
AllSetDistinct ==
    /\ \A t \in Threads : Returned(t) /\ threads[t].call.op = "Set"
    /\ \A t, u \in Threads :
          (t # u /\ threads[t].call.on = threads[u].call.on)
              => threads[t].call.key # threads[u].call.key

\* C18: while a mutating wrapper call (Set, Delete, DeletePrefix, MergeMap,
\* Merge, the routine of Update) executes on a wrapped tree, no other wrapper
\* call executes on that tree; and when the threads have all returned from
\* Set calls on distinct keys, each tree holds a leaf with the value for every
\* key set on it and its Len() is the number of those calls.
C18_WritersExclusive ==
    /\ \A t \in Threads :
          (Executing(t) /\ Mutates(t)) =>
              \A u \in Threads \ {t} :
                  Executing(u) => threads[t].call.on \notin Touches(u)
    /\ AllSetDistinct =>
          \A x \in SafeTrees :
              /\ TreeVal(x).size =
                     Cardinality({t \in Threads : threads[t].call.on = x})
              /\ \A t \in Threads :
                     threads[t].call.on = x =>
                         \E i \in 1..LeafCount(TreeVal(x).root) :
                             TreeWalk(TreeVal(x).root, {}).seq[i] =
                                 [key |-> threads[t].call.key,
                                  val |-> threads[t].call.val]

\* C18 witness: a Set executes on tree a while another thread, which has
\* called Set on a for another key, sleeps in m.Lock().
C18_Witness ==
    \E t, u \in Threads :
        /\ Executing(t) /\ threads[t].call.op = "Set" /\ threads[t].call.on = "a"
        /\ IsAt(u, "Lock") /\ threads[u].call.op = "Set" /\ threads[u].call.on = "a"
        /\ threads[u].call.key # threads[t].call.key

\* thread t, inside a call, can take its next step
CanStep(t) ==
    \/ IsAt(t, "RLock") /\ ~threads[t].waiting
    \/ IsAt(t, "Lock") /\ ~threads[t].waiting /\ mu[At(t).x].w = 0
    \/ IsAt(t, "Lock") /\ threads[t].waiting /\ mu[At(t).x].readers = 0
    \/ IsAt(t, "Begin") \/ IsAt(t, "End") \/ IsAt(t, "Unlock") \/ IsAt(t, "RUnlock")

\* C19: no wrapper call blocks forever: while calls are under way, one of
\* the threads inside a call can take a step (a sleeping thread is woken only
\* by a thread that is inside a call, so when none of them can step none of
\* them ever returns).
C19_NoCallBlocksForever ==
    (\E t \in Threads : InCall(t)) => \E t \in Threads : InCall(t) /\ CanStep(t)

-----------------------------------------------------------------------------
(* Queries of the bare tree *)

\* what the query of a thread returns when it runs alone on the tree
Alone(th) ==
    IF th.q.op = "Get" THEN TreeGet(root, th.q.arg, fold)
    ELSE IF th.q.op = "LongestPrefix" THEN TreeLongestPrefix(root, th.q.arg, fold)
    ELSE IF th.q.op = "Minimum" THEN TreeMinimum(root)
    ELSE IF th.q.op = "Maximum" THEN TreeMaximum(root)
    ELSE IF th.q.op = "Len" THEN size
    ELSE IF th.q.op = "Walk" THEN TreeWalk(root, {})
    ELSE IF th.q.op = "WalkPrefix" THEN TreeWalkPrefix(root, th.q.arg, {}, fold)
    ELSE IF th.q.op = "WalkPath" THEN TreeWalkPath(root, th.q.arg, {}, fold)
    ELSE IF th.q.op = "WalkNearestPath"
    THEN TreeWalkNearestPath(root, th.q.arg, {}, fold)
    ELSE TreeToMap(root)

\* C20: no step of a query changes the tree (its size and every node's
\* prefix, leaf and edge list stay as they are), and a query interleaved with
\* the queries of other threads returns what it returns when run alone.
C20_QueriesLeaveTreeAlone ==
    [][/\ root' = root
       /\ size' = size
       /\ \A t \in Threads :
             threads'[t].pc = "done" => threads'[t].res = Alone(threads'[t])]_vars

\* C20 witness: on a tree of at least two keys one thread is inside a
\* recursiveWalk that has visited a leaf while another is below the root in
\* the loop of a lookup.
C20_Witness ==
    \E t, u \in Threads :
        /\ size >= 2
        /\ threads[t].pc = "walk" /\ threads[t].seen # <<>>
        /\ threads[u].pc = "loop" /\ threads[u].n # <<>>

-----------------------------------------------------------------------------
(* The structure of the tree *)

\* the positions of the nodes other than the root
NonRoot == Positions(root) \ {<<>>}

\* C21: "replacing missing edge" never happens: no Set, whether called
\* directly or by Merge or MergeMap, in either comparison mode, calls
\* updateEdge with a label the parent has no edge for.
C21_NoMissingEdge ==
    last.op \in {"Set", "o.Set", "Merge", "MergeMap"} => ~last.panic

\* C21 witness: in a folding tree Set("A" U+00EA) has split the node of
\* "a" U+00E9, replacing the edge 'a' through the label 'A'.
C21_Witness ==
    /\ fold
    /\ last.op = "Set" /\ last.key = <<65, 195, 170>> /\ ~last.ok
    /\ Len(root.edges) = 1
    /\ root.edges[1].label = 97
    /\ root.edges[1].node.prefix = <<65>>
    /\ Len(root.edges[1].node.edges) = 2

\* C22: compaction: no node other than the root has exactly one edge and no
\* leaf, in every state Set, Delete and DeletePrefix reach.
C22_Compaction ==
    \A p \in NonRoot :
        ~(Len(NodeAt(root, p).edges) = 1 /\ ~isLeafInTheWind(NodeAt(root, p)))

\* C22 witness: Delete("aa") took one of two keys that shared the node "a",
\* which was merged with its other child: the root's one edge now leads to
\* the node of "a" U+00E9 with the whole key as its prefix.
C22_Witness ==
    /\ last.op = "Delete" /\ last.ok /\ last.key = <<97, 97>>
    /\ size = 1
    /\ Len(root.edges) = 1
    /\ root.edges[1].node = Node(root.edges[1].node.leaf, <<97, 195, 169>>, <<>>)
    /\ isLeafInTheWind(root.edges[1].node)

\* C23: no dangling node: after every Set (Insert), Delete and DeletePrefix
\* no node other than the root has no edge and no leaf; DeletePrefix removes
\* the parent's edge to the node whose subtree it discarded.
C23_NoDanglingNode ==
    \A p \in NonRoot :
        ~(Len(NodeAt(root, p).edges) = 0 /\ ~isLeafInTheWind(NodeAt(root, p)))

\* C23 witness: DeletePrefix has discarded a subtree below the root and left
\* other keys in the tree.
C23_Witness ==
    /\ last.op = "DeletePrefix" /\ last.key # <<>> /\ last.n >= 1
    /\ size >= 1

\* the nodes that have a leaf
LeafPositions == {p \in Positions(root) : isLeafInTheWind(NodeAt(root, p))}

LabelsIncrease(n) ==
    \A i, j \in 1..Len(n.edges) : i < j => n.edges[i].label < n.edges[j].label

\* every edge is labelled with the first character of its child's prefix,
\* lower-cased when the tree folds case
LabelsArePrefixHeads(n) ==
    \A i \in 1..Len(n.edges) :
        /\ n.edges[i].node.prefix # <<>>
        /\ n.edges[i].label = foldLabel(nextRune(n.edges[i].node.prefix), fold)

\* C25: edge invariant: in every reachable state each node's edge labels are
\* pairwise distinct and strictly increasing, and each label is the first
\* character of its child's prefix (lower-cased when the tree folds case).
C25_EdgeInvariant ==
    \A p \in Positions(root) :
        LabelsIncrease(NodeAt(root, p)) /\ LabelsArePrefixHeads(NodeAt(root, p))

-----------------------------------------------------------------------------
(* The case-folding helpers *)

\* the byte offsets at which the runes of the string s start, and its end
RECURSIVE RuneStarts(_, _)
RuneStarts(s, i) ==
    IF i >= Len(s) THEN {Len(s)}
    ELSE {i} \cup RuneStarts(s, i + DecodeRuneInString(Drop(s, i)).sz)

\* the length of the longest common prefix of a and b ignoring case: the
\* most bytes, ending at a rune boundary of both, that are equal up to case
CommonPrefixFold(a, b) ==
    LET ns == {n \in RuneStarts(a, 0) \cap RuneStarts(b, 0) :
                  EqualFold(Take(a, n), Take(b, n))}
    IN  CHOOSE n \in ns : \A m \in ns : m <= n

\* C26: LongestPrefixFold(a, b) is the length of the longest common prefix of
\* a and b ignoring case, is symmetric and never exceeds the shorter length;
\* HasPrefixFold(s, p) is true exactly when LongestPrefixFold(s, p) = len(p).
C26_FoldHelpersAgree ==
    /\ last.op = "LongestPrefixFold" =>
          /\ last.n = CommonPrefixFold(last.key, last.val)
          /\ last.n = LongestPrefixFold(last.val, last.key)
          /\ last.n <= Min2(Len(last.key), Len(last.val))
    /\ last.op = "HasPrefixFold" =>
          (last.ok <=> LongestPrefixFold(last.key, last.val) = Len(last.val))

-----------------------------------------------------------------------------
(* The shape of the tree *)

\* the structure under n: every node's prefix, leaf key and ordered edge labels
RECURSIVE Shape(_)
Shape(n) ==
    [prefix |-> n.prefix,
     leaf |-> [i \in 1..Len(n.leaf) |-> n.leaf[i].key],
     edges |-> [i \in 1..Len(n.edges) |->
                   [label |-> n.edges[i].label, node |-> Shape(n.edges[i].node)]]]

\* the byte-exact tree built from nothing by setting the keys of S in
\* ascending order
BuiltFrom(S) ==
    SetAll(TreeOf(EmptyNode, 0, FALSE),
           [i \in 1..Cardinality(S) |-> [key |-> SortedKeys(S)[i], val |-> 1]],
           1, FALSE).root

\* C27: canonical shape: in byte-exact mode the structure reached by any
\* sequence of Set, Delete and DeletePrefix depends only on the set of keys
\* the tree holds: it is the structure of the tree built from those keys alone.
C27_CanonicalShape == Shape(root) = Shape(BuiltFrom(HeldKeys(root)))

\* C28: in every reachable state the root's prefix is empty and the prefix of
\* every other node is not, so that every step down an edge shortens the
\* rest of the key.
C28_PrefixesNonEmpty ==
    /\ root.prefix = <<>>
    /\ \A p \in NonRoot : NodeAt(root, p).prefix # <<>>

-----------------------------------------------------------------------------
(* Releasing the wrapper's lock *)

\* C29: every wrapper operation releases the lock in the mode in which it
\* took it: Unlock is only issued by the writer holding the lock and RUnlock
\* only while the lock is held for reading, and once no call is in progress
\* no lock has a holder left.
C29_ReleasedAsAcquired ==
    /\ \A t \in Threads :
          IsAt(t, "Unlock") => mu[At(t).x].w = t /\ mu[At(t).x].held
    /\ \A t \in Threads :
          IsAt(t, "RUnlock") => mu[At(t).x].readers >= 1 /\ ~mu[At(t).x].held
    /\ (\A t \in Threads : ~InCall(t)) =>
          \A x \in SafeTrees : mu[x] = RWMutex(0, 0, FALSE)

-----------------------------------------------------------------------------
(* Trees that share nodes *)

\* t.Walk: recursiveWalk dereferences the nil node of an edge{} cell
WalkOfOriginal ==
    IF \E i \in 1..Len(root.edges) : root.edges[i] = NilEdge THEN "panic"
    ELSE KeysOf(TreeWalk(root, {}).seq)

\* C30: no node is shared between a tree and the SafeTree obtained from it
\* by Safe(): a Set, Delete or DeletePrefix on the one never changes what Get,
\* Len or Walk return on the other.
C30_NoSharedNode ==
    [][/\ \A k \in ShareKeys : TreeGet(root', k, fold) = TreeGet(root, k, fold)
       /\ size' = size
       /\ WalkOfOriginal' = WalkOfOriginal]_vars

====
